---- MODULE Spec2Model ----
(***************************************************************************)
(* Model of the chat widget of bleu-esprit-dialogue: the chat session      *)
(* controller (ChatInterface.handleSendMessage and its reply sequencing),  *)
(* the trending-question refresh, the page's new-chat handler with the     *)
(* session identifier of the api module, and the feedback buttons.         *)
(*                                                                         *)
(* Strings that the code transforms are sequences of tokens: "PARTIE" is   *)
(* the literal %%PARTIE%%, "DOCSEP" the literal                            *)
(* "\n\nSi tu veux plus d'informations", "DOCHEAD" the literal             *)
(* "Si tu veux plus d'informations"; any other token is ordinary text.     *)
(***************************************************************************)
EXTENDS Integers, Sequences, FiniteSets, TLC

VARIABLES
    messages,          \* ChatInterface state: messages
    loading,           \* ChatInterface state: loading
    loadingMessage,    \* ChatInterface state: loadingMessage (TRUE = not null)
    trendingQuestionsData, \* ChatInterface state: trendingQuestionsData (texts)
    calls,             \* one record per handleSendMessage invocation
    trendFetches,      \* fetchTrendingQuestions invocations awaiting their reply
    chatKey,           \* Index state: chatKey (the mounted ChatInterface)
    isAnimated,        \* Index state: isAnimated
    clears,            \* handleNewChat invocations awaiting clearConversation
    SESSION_ID,        \* api module: SESSION_ID
    storedSession,     \* localStorage entry chat_session_id (0 = absent)
    nextUuid,          \* the next value uuidv4() returns
    variant,           \* which api module is loaded
    convSessions,      \* session ids carried by the requests of this conversation
    lastReset,         \* ids before/after the latest completed new-chat action
    feedbackState,     \* FeedbackButtons state per message index
    feedbackRequests,  \* /feedback requests sent
    trendLog,          \* the refreshes of the mounted ChatInterface: what
                       \* getTrendingQuestions returned last, and per refresh
                       \* in flight whether a later-issued one has ended
    storeVariant,      \* which incidentStorage module is loaded
    storage,           \* localStorage entry oskour_app_incidents
    loaded,            \* what the latest loadIncidentsFromStorage() returned
    saved,             \* the argument of the latest saveIncidentsToStorage()
    storeOp,           \* the latest operation on the incident store
    tabs,              \* the browser tabs showing a view of the application
    applyLog,          \* applies made, 'incident-update' events dispatched,
                       \* firings of the ticker intervals
    reads              \* per read function of the api, its latest call

\* the variables of the chat page, and those of the rest of the application
chatPage == <<messages, loading, loadingMessage, trendingQuestionsData, calls,
              trendFetches, chatKey, isAnimated, clears, SESSION_ID,
              storedSession, nextUuid, variant, convSessions, lastReset,
              feedbackState, feedbackRequests, trendLog>>
store == <<storeVariant, storage, loaded, saved, storeOp>>
views == <<tabs, applyLog>>
dashboard == <<reads>>
outsideChat == <<store, views, dashboard>>

vars == <<messages, loading, loadingMessage, trendingQuestionsData, calls,
          trendFetches, chatKey, isAnimated, clears, SESSION_ID, storedSession,
          nextUuid, variant, convSessions, lastReset, feedbackState,
          feedbackRequests, trendLog, storeVariant, storage, loaded, saved, storeOp,
          tabs, applyLog, reads>>

----------------------------------------------------------------------------
(* Bounds *)

MaxCalls == 2        \* handleSendMessage invocations in one run
MaxParts == 2        \* entries of message_parts in a /chat response
MaxOverlap == 2      \* refreshes in flight at once where their overlap is looked at
MaxTrendInFlight == 1 \* fetchTrendingQuestions requests awaiting a reply
MaxNewChats == 1     \* handleNewChat invocations in one run
MaxFeedback == 1     \* feedback clicks in one run
MaxIncidents == 2    \* records of an incident collection
MaxTabs == 2         \* browser tabs open on the application
MaxApplies == 2      \* clicks on the apply button of the incident manager
MaxTicks == 1        \* firings of ticker intervals in one run

----------------------------------------------------------------------------
(* JavaScript values *)

Undefined == [t |-> "undefined"]
Num(n) == [t |-> "num", n |-> n]
Str(s) == [t |-> "str", s |-> s]

NotAString == <<"#notastring">>   \* a value that has no .replace / .split
IsString(s) == s # NotAString


----------------------------------------------------------------------------
(* Strings as token sequences, and the string operations of the reply code *)

\* s.replace(/%%PARTIE%%/g, '')
StripPartie(s) == SelectSeq(s, LAMBDA t : t # "PARTIE")

\* s.includes("\n\nSi tu veux plus d'informations")
IncludesDocSep(s) == \E i \in 1..Len(s) : s[i] = "DOCSEP"

\* positions of the delimiter in s, and the end of s as a last boundary
DocSepAt(s) == {i \in 1..Len(s) : s[i] = "DOCSEP"}
FirstSep(s) == IF DocSepAt(s) = {} THEN Len(s) + 1
               ELSE CHOOSE i \in DocSepAt(s) : \A j \in DocSepAt(s) : i <= j
SecondSep(s) == LET later == {i \in DocSepAt(s) : i > FirstSep(s)}
                IN  IF later = {} THEN Len(s) + 1
                    ELSE CHOOSE i \in later : \A j \in later : i <= j

\* s.split(/\n\nSi tu veux plus d'informations/)[0]
SplitFirst(s) == SubSeq(s, 1, FirstSep(s) - 1)
\* s.split(/\n\nSi tu veux plus d'informations/)[1], when s includes the delimiter
SplitSecond(s) == SubSeq(s, FirstSep(s) + 1, SecondSep(s) - 1)

\* a faulty split: the piece after the delimiter is taken for the answer
InitialResponse_SecondPiece(answer) == StripPartie(SplitSecond(answer))

\* initialResponse of the single-answer branch
InitialResponse(answer) == StripPartie(SplitFirst(answer))

\* documentPart of the single-answer branch ("" is the empty sequence)
DocumentPart(answer) ==
    IF IncludesDocSep(answer)
    THEN <<"DOCHEAD">> \o StripPartie(SplitSecond(answer))
    ELSE <<>>

----------------------------------------------------------------------------
(* The /chat exchange as sendMessage sees it *)

\* what the user types (ChatInput passes the trimmed, non-empty text)
UserTexts == {"q1"}

AllSeqs(S, n) == UNION {[1..k -> S] : k \in 0..n}

\* answer texts a backend reply may carry: plain, with the part separator and
\* the document delimiter (twice), or a value that is no string
Answers == {<<"a">>,
            <<"PARTIE", "a", "DOCSEP", "b", "PARTIE", "DOCSEP", "c">>,
            NotAString}
\* one entry of message_parts: a text, or a value that is no string
PartValues == {<<"PARTIE", "a">>, NotAString}
\* message_parts: absent or empty (both <<>>), or up to MaxParts entries
PartLists == AllSeqs(PartValues, MaxParts)
\* the lists that take the multi-part branch (texts, the last entry possibly
\* no string), and the one-entry list, which does not take it
MultiPartLists ==
    {p \in PartLists : Len(p) > 1 /\ \A i \in 1..(Len(p) - 1) : IsString(p[i])}
    \cup {<<<<"PARTIE", "a">>>>}
\* message_id of a reply: absent, or the id the backend assigned
MessageIds == {Undefined, Num(7)}

Http(kind, answer, parts, mid) ==
    [kind |-> kind, answer |-> answer, message_parts |-> parts, message_id |-> mid]

\* what the fetch of /chat can come back with; the multi-part branch never reads
\* answer and the single branch never reads the entries of message_parts
ChatHttp ==
    {Http(k, <<>>, <<>>, Undefined) : k \in {"network", "status", "unparsable", "null"}}
    \cup {Http("object", <<"a">>, <<>>, m) : m \in MessageIds}
    \cup {Http("object", a, <<>>, Num(7)) : a \in Answers}
    \cup {Http("object", <<"a">>, p, Num(7)) : p \in MultiPartLists}

\* api.sendMessage: throws on a rejected fetch, a non-2xx status, an unparsable body
sendMessageThrows(http) == http.kind \in {"network", "status", "unparsable"}


----------------------------------------------------------------------------
(* ChatInterface: messages and the invocations of handleSendMessage *)

\* a ChatMessageProps object; call and part tell which invocation created it
\* and as which part (they are not fields of the program's object)
Msg(role, content, mid, isLoading, isLast, call, part) ==
    [role |-> role, content |-> content, message_id |-> mid,
     isLoading |-> isLoading, isLastInSequence |-> isLast,
     call |-> call, part |-> part]

\* userMessage of handleSendMessage
UserMessage(content, c) ==
    Msg("user", content, Undefined, FALSE, "undefined", c, 0)

\* a faulty flag: the first part is marked instead of the last
PartIsLast_First(index, n) == index = 0

\* partMessage of addMessageWithDelay
PartIsLast(index, n) == index = n - 1
PartMessage(parts, index, mid, c) ==
    Msg("assistant", StripPartie(parts[index + 1]), mid, FALSE,
        IF PartIsLast(index, Len(parts)) THEN "true" ELSE "false", c, index)

\* initialBotResponse, docsLoadingMsg and documentMessage of the single branch
InitialBotResponse(answer, mid, c) ==
    Msg("assistant", InitialResponse(answer), mid, FALSE, "undefined", c, 0)
DocsLoadingMsg(c) ==
    Msg("assistant", <<"SEARCHING">>, Undefined, TRUE, "undefined", c, 1)
DocumentMessage(answer, c) ==
    Msg("assistant", DocumentPart(answer), Undefined, FALSE, "undefined", c, 1)

\* the isLastInSequence prop the render passes to ChatMessage for messages[i]
RenderedIsLast(msgs, i) ==
    \/ msgs[i].role = "user"
    \/ i = Len(msgs)
    \/ (i < Len(msgs) /\ msgs[i + 1].role = "user")

\* the branch test: response.message_parts && response.message_parts.length > 1
IsMultiPart(http) == Len(http.message_parts) > 1

\* no reply yet (or no closure left to hold it)
NoHttp == Http("none", <<>>, <<>>, Undefined)

\* a call record: one invocation of handleSendMessage
\*   key      chatKey of the ChatInterface instance it runs in
\*   pc       "await" (sendMessage pending), "delay" (typing delay after part
\*            idx), "docwait" (document delay), "done"
\*   outcome  "pending", "ok" (try block completed) or "failed" (catch ran)
NewCall(key, content, sid) ==
    [key |-> key, content |-> content, session |-> sid, pc |-> "await",
     outcome |-> "pending", http |-> NoHttp,
     idx |-> 0, timers |-> 0, toast |-> FALSE, refreshed |-> FALSE,
     focused |-> FALSE, indicated |-> FALSE, requests |-> 0]

\* api.sendMessage: the one fetch of /chat it issues
Fetched(requests) == requests + 1

\* the closure of an invocation that ended in an unmounted instance is garbage:
\* its record keeps only what the page can still observe of it
Forgotten(call) == [call EXCEPT !.http = NoHttp, !.content = "", !.idx = 0,
                                !.timers = 0]

Mounted_Always(c) == TRUE

\* the instance that made invocation c is the one on the page
Mounted(c) == calls[c].key = chatKey
InFlight(c) == calls[c].pc # "done"
CallIds == 1..Len(calls)


Range(f) == {f[i] : i \in DOMAIN f}
RemoveAt(q, i) == SubSeq(q, 1, i - 1) \o SubSeq(q, i + 1, Len(q))
SetCall(c, r) == [calls EXCEPT ![c] = r]

----------------------------------------------------------------------------
(* ChatInterface.fetchTrendingQuestions and api.getTrendingQuestions *)

TrendKinds == {"network", "status", "unparsable", "object"}
\* the trending replies of the backend while one conversation is looked at
ConversationTrendBodies == {<<>>, <<"q1">>}
\* the outcomes of the fetch of /trending_questions: a failure, whose body
\* getTrendingQuestions does not return, or a parsed body
TrendReplies ==
    {[kind |-> k, body |-> <<>>] : k \in TrendKinds \ {"object"}}
    \cup {[kind |-> "object", body |-> b] : b \in ConversationTrendBodies}

\* api.getTrendingQuestions: the parsed body, or [] on any failure
getTrendingQuestions(kind, body) == IF kind = "object" THEN body ELSE <<>>

\* a faulty refresh: an empty result leaves the displayed questions as they are
TrendingData_KeepsPrevious(trendingData) ==
    IF Len(trendingData) > 0 THEN trendingData ELSE trendingQuestionsData

\* what fetchTrendingQuestions stores for the value getTrendingQuestions returned
TrendingData(trendingData) ==
    IF Len(trendingData) > 0 THEN trendingData ELSE <<>>

\* fetchTrendingQuestions() up to its await: one more request in flight
FetchStarted(fetches, key) == Append(fetches, key)

\* The refreshes of an instance as the network sees them: arrived is what
\* getTrendingQuestions returned last; overtaken has one entry per refresh in
\* flight, in the order of issue: <<>> while no refresh issued after it has
\* ended, else <<d>> with d what getTrendingQuestions returned to the
\* latest-issued of those that ended.
AtMount == [arrived |-> <<>>, overtaken |-> << <<>> >>]

\* one more refresh is issued
Issued(log) == [log EXCEPT !.overtaken = Append(@, <<>>)]

\* getTrendingQuestions returns data to refresh i: unless a later-issued one
\* has ended already, it overtakes the refreshes issued before it
Arrived(log, i, data) ==
    [arrived |-> data,
     overtaken |-> RemoveAt([j \in DOMAIN log.overtaken |->
                                IF j < i /\ log.overtaken[i] = <<>>
                                THEN <<data>> ELSE log.overtaken[j]], i)]

\* the 5-minute interval of the mounted ChatInterface fires, with at most max
\* refreshes in flight
IntervalFires(max) ==
    /\ Len(trendFetches) < max
    /\ trendFetches' = FetchStarted(trendFetches, chatKey)
    /\ trendLog' = Issued(trendLog)
    /\ UNCHANGED <<messages, loading, loadingMessage, trendingQuestionsData,
                   calls, chatKey, isAnimated, clears, SESSION_ID, storedSession,
                   nextUuid, variant, convSessions, lastReset, feedbackState, feedbackRequests>>
    /\ UNCHANGED outsideChat

TrendTimer == IntervalFires(MaxTrendInFlight)

\* a faulty refresh: an empty result leaves the displayed questions as they are
\* the reply of request i arrives: the rest of fetchTrendingQuestions
TrendSettles(i, kind, body) ==
    /\ i \in 1..Len(trendFetches)
    /\ trendingQuestionsData' = TrendingData(getTrendingQuestions(kind, body))
    /\ trendFetches' = RemoveAt(trendFetches, i)
    /\ trendLog' = Arrived(trendLog, i, getTrendingQuestions(kind, body))
    /\ UNCHANGED <<messages, loading, loadingMessage, calls, chatKey, isAnimated,
                   clears, SESSION_ID, storedSession, nextUuid, variant,
                   convSessions, lastReset, feedbackState,
                   feedbackRequests>>
    /\ UNCHANGED outsideChat

----------------------------------------------------------------------------
(* ChatInterface.handleSendMessage *)

\* a faulty finally block: loading is left on
FinallyLoading_StaysOn == TRUE

\* the value the finally block gives to loading
FinallyLoading == FALSE

\* a faulty payload: the identifier is read from localStorage at every request
PayloadSession_FromStorage(sid, stored) == stored

\* session_id of the payload of a /chat or /clear_history request: the module's
\* SESSION_ID
PayloadSession(sid, stored) == sid

\* handleSendMessage up to its first await.  viaInput: submitted by ChatInput
\* (which refuses while disabled = loading); otherwise the click of a
\* trending-question button, which calls handleSendMessage(item.text) directly.
MaySend(viaInput, content) ==
    IF viaInput THEN ~loading /\ content \in UserTexts
    ELSE content \in Range(trendingQuestionsData)

HandleSendMessage(viaInput, content) ==
    /\ Len(calls) < MaxCalls
    /\ MaySend(viaInput, content)
    /\ messages' = Append(messages, UserMessage(content, Len(calls) + 1))
    /\ isAnimated' = (IF Len(messages) = 0 THEN TRUE ELSE isAnimated)
    /\ loading' = TRUE
    /\ loadingMessage' = TRUE
    /\ calls' = Append(calls,
                       [NewCall(chatKey, content,
                                PayloadSession(SESSION_ID, storedSession))
                        EXCEPT !.requests = Fetched(@)])
    /\ convSessions' = convSessions \cup {PayloadSession(SESSION_ID, storedSession)}
    /\ UNCHANGED <<trendingQuestionsData, trendFetches, trendLog, chatKey, clears,
                   SESSION_ID, storedSession, nextUuid, variant, lastReset, feedbackState, feedbackRequests>>
    /\ UNCHANGED outsideChat

\* The rest of handleSendMessage runs in pieces, one per await.  Each piece
\* yields the component state it leaves: what the setState calls of an
\* instance that is still mounted produce (those of an unmounted one are lost).
\* final: the piece ends the invocation, so the finally block ran.
Piece(msgs, lm, final, call, fetch) ==
    [messages |-> msgs, loadingMessage |-> lm, final |-> final, call |-> call,
     fetch |-> fetch]

\* a faulty catch block: the request is sent once more before giving up
Caught_Retries(msgs, call) ==
    IF call.requests < 2 /\ call.pc = "await"
    THEN [messages |-> msgs, loadingMessage |-> TRUE, final |-> FALSE,
          call |-> [call EXCEPT !.requests = Fetched(@)], fetch |-> FALSE]
    ELSE [messages |-> msgs, loadingMessage |-> FALSE, final |-> TRUE,
          call |-> [call EXCEPT !.pc = "done", !.outcome = "failed",
                                !.toast = TRUE, !.focused = TRUE],
          fetch |-> FALSE]

\* catch + finally: the indicator is cleared, an error toast is raised
Caught(msgs, call) ==
    Piece(msgs, FALSE, TRUE,
          [call EXCEPT !.pc = "done", !.outcome = "failed", !.toast = TRUE,
                       !.focused = TRUE],
          FALSE)

\* end of the try block + finally: fetchTrendingQuestions(), loading off, focus
Completed(msgs, lm, call) ==
    Piece(msgs, lm, TRUE,
          [call EXCEPT !.pc = "done", !.outcome = "ok", !.refreshed = TRUE,
                       !.focused = TRUE],
          TRUE)

\* a faulty handler: the indicator is not cleared before the append
Cleared_Kept(shown) == shown

\* setLoadingMessage(null) after the await of sendMessage and after the typing
\* delay: the indicator as the append that follows finds it
Cleared(shown) == FALSE

\* the append of an answer or a part: indicated records an append made while
\* the indicator was displayed
Appending(call) == [call EXCEPT !.indicated = @ \/ Cleared(loadingMessage)]

\* addMessageWithDelay(index) up to its await (or to its return)
AddMessageWithDelay(msgs, call, c, index) ==
    LET parts == call.http.message_parts
    IN  IF index >= Len(parts) THEN Completed(msgs, FALSE, call)
        ELSE IF ~IsString(parts[index + 1]) THEN Caught(msgs, call)
        ELSE LET added == Append(msgs, PartMessage(parts, index,
                                                   call.http.message_id, c))
             IN  IF index < Len(parts) - 1
                 THEN Piece(added, TRUE, FALSE,
                            [Appending(call) EXCEPT !.pc = "delay",
                                                    !.idx = index], FALSE)
                 ELSE Completed(added, FALSE, Appending(call))

\* the single-answer branch up to its await (or to its end)
SingleAnswer(msgs, call, c) ==
    LET answer == call.http.answer
    IN  IF ~IsString(answer) THEN Caught(msgs, call)
        ELSE LET added == Append(msgs, InitialBotResponse(answer,
                                                   call.http.message_id, c))
             IN  IF DocumentPart(answer) # <<>>
                 THEN Piece(Append(added, DocsLoadingMsg(c)), FALSE, FALSE,
                            [Appending(call) EXCEPT !.pc = "docwait"], FALSE)
                 ELSE Completed(added, FALSE, Appending(call))

\* from the return of sendMessage to the next await
AfterResponse(msgs, call, c) ==
    IF call.http.kind = "null"   \* response.message_parts of null throws
    THEN Caught(msgs, call)
    ELSE IF IsMultiPart(call.http)
         THEN AddMessageWithDelay(msgs, call, c, 0)
         ELSE SingleAnswer(msgs, call, c)

\* after the typing delay: indicator off, then addMessageWithDelay(index + 1)
AfterDelay(msgs, call, c) ==
    AddMessageWithDelay(msgs, [call EXCEPT !.timers = @ + 1], c, call.idx + 1)

\* after the document delay: drop docsLoadingMsg, append documentMessage
RemoveDocsLoading(msgs, c) == SelectSeq(msgs, LAMBDA m : m # DocsLoadingMsg(c))
AfterDocDelay(msgs, call, c) ==
    Completed(Append(RemoveDocsLoading(msgs, c),
                     DocumentMessage(call.http.answer, c)),
              loadingMessage, [call EXCEPT !.timers = @ + 1])

\* apply a piece of invocation c to the state
Apply(c, piece) ==
    /\ piece.fetch /\ Mounted(c) => Len(trendFetches) < MaxTrendInFlight
    /\ calls' = SetCall(c, IF Mounted(c) \/ piece.call.pc # "done"
                            THEN piece.call ELSE Forgotten(piece.call))
    /\ IF Mounted(c)
       THEN /\ messages' = piece.messages
            /\ loadingMessage' = piece.loadingMessage
            /\ loading' = (IF piece.final THEN FinallyLoading ELSE loading)
            /\ trendFetches' = IF piece.fetch
                               THEN FetchStarted(trendFetches, chatKey)
                               ELSE trendFetches
            /\ trendLog' = IF piece.fetch THEN Issued(trendLog) ELSE trendLog
       ELSE UNCHANGED <<messages, loadingMessage, loading, trendFetches, trendLog>>
    /\ UNCHANGED <<trendingQuestionsData, chatKey, isAnimated, clears,
                   SESSION_ID, storedSession, nextUuid, variant, convSessions,
                   lastReset, feedbackState, feedbackRequests>>
    /\ UNCHANGED outsideChat

\* the fetch of /chat settles with http; response is assigned only when
\* sendMessage returns
ChatSettles(c, http) ==
    /\ c \in CallIds /\ calls[c].pc = "await"
    /\ Apply(c, IF sendMessageThrows(http) THEN Caught(messages, calls[c])
                ELSE AfterResponse(messages, [calls[c] EXCEPT !.http = http], c))

\* the typing-delay timer of invocation c fires
DelayElapsed(c) ==
    /\ c \in CallIds /\ calls[c].pc = "delay"
    /\ Apply(c, AfterDelay(messages, calls[c], c))

\* the document-delay timer of invocation c fires
DocDelayElapsed(c) ==
    /\ c \in CallIds /\ calls[c].pc = "docwait"
    /\ Apply(c, AfterDocDelay(messages, calls[c], c))


----------------------------------------------------------------------------
(* The api module's session identifier, clearConversation, Index.handleNewChat *)

\* "pageload": api.ts, const SESSION_ID = uuidv4() at every page load and a
\*             clearConversation that posts /clear_history and checks response.ok
\* "stored":   SESSION_ID read from localStorage (created when absent) and a
\*             clearConversation that posts /clear_history without reading the reply
\* "regen":    SESSION_ID read from localStorage and a clearConversation that
\*             installs a new uuid and calls no endpoint
Variants == {"pageload", "stored", "regen"}

\* the identifier the module holds once loaded, and the localStorage entry
FirstSessionId == 1
InitialStored(v) == IF v = "pageload" THEN 0 ELSE FirstSessionId

ClearKinds == {"ok", "status", "network"}

\* a faulty clearConversation: no failure is ever signalled
clearConversationThrows_Never(v, kind) == FALSE

\* clearConversation throws: api.ts on a rejected fetch or a non-2xx status,
\* the "stored" module on a rejected fetch only
clearConversationThrows(v, kind) ==
    IF v = "pageload" THEN kind \in {"status", "network"}
    ELSE kind = "network"

\* a faulty regenerating clearConversation: the identifier is kept
SessionAfterClear_Keeps(v, sid, fresh) == sid

\* the identifier clearConversation leaves in SESSION_ID
SessionAfterClear(v, sid, fresh) == IF v = "regen" THEN fresh ELSE sid

\* a new ChatInterface instance is mounted under the new key: fresh state, and
\* its mount effect calls fetchTrendingQuestions()
ResetDone ==
    /\ isAnimated' = FALSE
    /\ chatKey' = chatKey + 1
    /\ messages' = <<>>
    /\ loading' = FALSE
    /\ loadingMessage' = FALSE
    /\ trendingQuestionsData' = <<>>
    /\ trendFetches' = FetchStarted(<<>>, chatKey + 1)
    /\ trendLog' = AtMount
    /\ feedbackState' = <<>>
    /\ convSessions' = {}
    /\ calls' = [c \in DOMAIN calls |->
                   IF calls[c].pc = "done" THEN Forgotten(calls[c]) ELSE calls[c]]

\* handleNewChat up to the await of clearConversation (the button shows only
\* when isAnimated).  The "regen" clearConversation has no await of its own, so
\* handleNewChat completes in one piece.
HandleNewChat ==
    /\ isAnimated
    /\ UNCHANGED outsideChat
    /\ Len(clears) < MaxNewChats
    /\ IF variant = "regen"
       THEN /\ SESSION_ID' = SessionAfterClear(variant, SESSION_ID, nextUuid)
            /\ storedSession' = SESSION_ID'
            /\ nextUuid' = nextUuid + 1
            /\ clears' = Append(clears, [session |-> SESSION_ID, pc |-> "done",
                                         outcome |-> "reset", kind |-> "none"])
            /\ lastReset' = [before |-> SESSION_ID, after |-> SESSION_ID']
            /\ ResetDone
            /\ UNCHANGED <<variant, feedbackRequests>>
       ELSE /\ clears' = Append(clears,
                      [session |-> PayloadSession(SESSION_ID, storedSession),
                       pc |-> "await", outcome |-> "pending", kind |-> "none"])
            /\ convSessions' =
                   convSessions \cup {PayloadSession(SESSION_ID, storedSession)}
            /\ UNCHANGED <<messages, loading, loadingMessage,
                           trendingQuestionsData, calls, trendFetches, trendLog, chatKey,
                           isAnimated, SESSION_ID, storedSession, nextUuid,
                           variant, lastReset, feedbackState, feedbackRequests>>

\* the fetch of /clear_history settles: the rest of handleNewChat
ClearSettles(k, kind) ==
    /\ k \in 1..Len(clears) /\ clears[k].pc = "await"
    /\ UNCHANGED <<SESSION_ID, storedSession, nextUuid, variant,
                   feedbackRequests>>
    /\ UNCHANGED outsideChat
    /\ IF clearConversationThrows(variant, kind)
       THEN /\ clears' = [clears EXCEPT ![k].pc = "done", ![k].outcome = "error",
                                        ![k].kind = kind]
            /\ UNCHANGED <<messages, loading, loadingMessage, calls,
                           trendingQuestionsData, trendFetches, trendLog, chatKey,
                           isAnimated, feedbackState, convSessions, lastReset>>
       ELSE /\ clears' = [clears EXCEPT ![k].pc = "done", ![k].outcome = "reset",
                                        ![k].kind = kind]
            /\ lastReset' = [before |-> SESSION_ID, after |-> SESSION_ID']
            /\ ResetDone

----------------------------------------------------------------------------
(* FeedbackButtons.handleFeedback, api.sendFeedback, and ChatMessage, which *)
(* renders FeedbackButtons under every message that is not the user's       *)

NaN == [t |-> "nan"]

Digits == <<"0", "1", "2", "3", "4", "5", "6", "7", "8", "9">>
IsDigit(ch) == \E d \in 1..10 : Digits[d] = ch
DigitValue(ch) == (CHOOSE d \in 1..10 : Digits[d] = ch) - 1

\* the longest prefix of digits of a sequence of characters, as a number
RECURSIVE DigitsValue(_, _)
DigitsValue(chars, acc) ==
    IF chars = <<>> \/ ~IsDigit(Head(chars)) THEN acc
    ELSE DigitsValue(Tail(chars), 10 * acc + DigitValue(Head(chars)))

\* parseInt(s, 10) of a sequence of characters: an optional sign, then digits;
\* NaN when no digit follows
ParseInt(chars) ==
    LET neg == chars # <<>> /\ Head(chars) = "-"
        rest == IF chars # <<>> /\ Head(chars) \in {"-", "+"}
                THEN Tail(chars) ELSE chars
    IN  IF rest = <<>> \/ ~IsDigit(Head(rest)) THEN NaN
        ELSE Num(IF neg THEN 0 - DigitsValue(rest, 0) ELSE DigitsValue(rest, 0))

\* numericMessageId: typeof messageId === 'string' ? parseInt(messageId, 10) : messageId
NumericMessageId(messageId) ==
    IF messageId.t = "str" THEN ParseInt(messageId.s) ELSE messageId

\* isNaN(v) || v < 0 for the values a messageId prop can hold
\* (isNaN(undefined) is true; null converts to 0)
IsInvalidMessageId(v) ==
    \/ v.t \in {"nan", "undefined"}
    \/ (v.t = "num" /\ v.n < 0)

\* a faulty rating: the same value for both buttons
Rating_Flat(type) == 5

\* rating: 5 for a positive, 1 for a negative click
Rating(type) == IF type = "positive" THEN 5 ELSE 1

\* the messageId prop ChatMessage gives to FeedbackButtons: the literal "1"
FeedbackProp(msg) == Str(<<"1">>)

\* ChatMessage renders FeedbackButtons when the message is not the user's
HasFeedbackButtons(msg) == msg.role # "user"

\* state of the FeedbackButtons instance under messages[i]
NoFeedback == [feedback |-> "null", loading |-> FALSE]
FbState(i) == IF i \in DOMAIN feedbackState THEN feedbackState[i] ELSE NoFeedback

FeedbackKinds == {"ok", "status", "network"}
\* a faulty sendFeedback: response.ok is not looked at
sendFeedbackThrows_StatusIgnored(kind) == kind = "network"

\* api.sendFeedback throws on a rejected fetch and on a non-2xx status
sendFeedbackThrows(kind) == kind \in {"status", "network"}

\* a click on a feedback button under messages[i]: handleFeedback(type) up to
\* the await of sendFeedback, or to its end when the id is refused
HandleFeedback(i, type) ==
    /\ i \in 1..Len(messages) /\ HasFeedbackButtons(messages[i])
    /\ LET numericMessageId == NumericMessageId(FeedbackProp(messages[i]))
       IN  IF FbState(i).loading   \* if (loading) return;
           THEN UNCHANGED <<feedbackState, feedbackRequests>>
           ELSE IF Len(feedbackRequests) >= MaxFeedback THEN FALSE
           ELSE IF IsInvalidMessageId(numericMessageId)
           THEN /\ feedbackState' =
                      (i :> [feedback |-> type, loading |-> FALSE]) @@ feedbackState
                /\ UNCHANGED feedbackRequests
           ELSE /\ feedbackState' =
                      (i :> [feedback |-> type, loading |-> TRUE]) @@ feedbackState
                /\ feedbackRequests' = Append(feedbackRequests,
                      [index |-> i, key |-> chatKey,
                       message_id |-> numericMessageId,
                       of_message |-> messages[i].message_id,
                       rating |-> Rating(type), pc |-> "await",
                       toast |-> "none", reply |-> "none"])
    /\ UNCHANGED <<messages, loading, loadingMessage, trendingQuestionsData,
                   calls, trendFetches, trendLog, chatKey, isAnimated, clears, SESSION_ID,
                   storedSession, nextUuid, variant, convSessions, lastReset>>
    /\ UNCHANGED outsideChat

\* the fetch of /feedback settles: the rest of handleFeedback
FeedbackSettles(r, kind) ==
    /\ r \in 1..Len(feedbackRequests) /\ feedbackRequests[r].pc = "await"
    /\ feedbackRequests' =
          [feedbackRequests EXCEPT ![r].pc = "done", ![r].reply = kind,
              ![r].toast = IF sendFeedbackThrows(kind) THEN "error" ELSE "thanks"]
    /\ feedbackState' =
          IF feedbackRequests[r].key = chatKey
          THEN LET i == feedbackRequests[r].index
               IN  (i :> [FbState(i) EXCEPT !.loading = FALSE]) @@ feedbackState
          ELSE feedbackState
    /\ UNCHANGED <<messages, loading, loadingMessage, trendingQuestionsData,
                   calls, trendFetches, trendLog, chatKey, isAnimated, clears, SESSION_ID,
                   storedSession, nextUuid, variant, convSessions, lastReset>>
    /\ UNCHANGED outsideChat

----------------------------------------------------------------------------
(* utils/incidentStorage: the incident table kept in localStorage *)

\* "plain":        incidentStorage.ts, JSON.stringify of the records as they are
\* "serializable": the module that stores id, name, status and iconType and
\*                 rebuilds the icon from the default list when loading
StoreVariants == {"plain", "serializable"}

\* an AppIncident, and any other element an array read from storage can hold
\* (k: "record", "null" or "number"); icon: <<"node", id>> a React node,
\* <<"plain">> a node after JSON, <<"null">> null, <<>> absent
Incident(id, name, status, icon) ==
    [k |-> "record", id |-> id, name |-> name, status |-> status, icon |-> icon]
NullItem == [k |-> "null", id |-> "", name |-> "", status |-> "", icon |-> <<>>]
NumberItem == [k |-> "number", id |-> "", name |-> "", status |-> "", icon |-> <<>>]

\* application ids: two of the default list and one unknown to it
AppIds == {"artis", "sas", "x"}
NameOf(id) == IF id = "artis" THEN "Artis" ELSE IF id = "sas" THEN "SAS" ELSE "X"
Statuses == {"ok", "incident"}

\* appIncidents of components/IncidentStatus, the default set
defaultIncidents ==
    <<Incident("artis", "Artis", "ok", <<"node", "artis">>),
      Incident("sas", "SAS", "ok", <<"node", "sas">>)>>

\* well-formed collections: AppIncident records with distinct ids
Collections ==
    {c \in UNION {[1..n -> {Incident(id, NameOf(id), st, <<"node", id>>) :
                                id \in AppIds, st \in Statuses}] :
                  n \in 0..MaxIncidents} :
        \A i, j \in DOMAIN c : c[i].id = c[j].id => i = j}

\* what identifies a record: id, name and status
Core(e) == <<e.k, e.id, e.name, e.status>>
Cores(items) == [i \in DOMAIN items |-> Core(items[i])]

\* The localStorage entry.  t: "absent", "empty" (the empty string), "garbage"
\* (no JSON), or the JSON value the text denotes: "null", "object", "number",
\* "array" with the denoted elements in items (iconType "" when not written)
Entry(t, items) == [t |-> t, items |-> items]
Absent == Entry("absent", <<>>)
JsonItem(e, icon, iconType) ==
    [k |-> e.k, id |-> e.id, name |-> e.name, status |-> e.status,
     icon |-> icon, iconType |-> iconType]

\* JSON.stringify(incidents) of incidentStorage.ts: a React node becomes a
\* plain object
StringifyPlain(incidents) ==
    Entry("array", [i \in DOMAIN incidents |->
                       JsonItem(incidents[i],
                                IF incidents[i].icon = <<"null">>
                                THEN <<"null">> ELSE <<"plain">>, "")])

\* JSON.stringify(serializableIncidents): id, name, status, iconType: id
StringifySerializable(incidents) ==
    Entry("array", [i \in DOMAIN incidents |->
                       JsonItem(incidents[i], <<>>, incidents[i].id)])

saveIncidentsToStorage_StatusLost(v, incidents) ==
    StringifySerializable([i \in DOMAIN incidents |->
                              [incidents[i] EXCEPT !.status = "ok"]])

\* what saveIncidentsToStorage(incidents) leaves in the entry
saveIncidentsToStorage(v, incidents) ==
    IF v = "plain" THEN StringifyPlain(incidents)
    ELSE StringifySerializable(incidents)

\* if (storedData): the entry is there and is not the empty string
Truthy(entry) == entry.t \notin {"absent", "empty"}

\* a JavaScript value a load can return: t "array" with items, or "null",
\* "object", "number"
Value(t, items) == [t |-> t, items |-> items]
Defaults == Value("array", defaultIncidents)

\* defaultIncidents.find(def => def.id === item.id)
MatchingDefault(id) ==
    LET found == {i \in DOMAIN defaultIncidents : defaultIncidents[i].id = id}
    IN  IF found = {} THEN <<"null">>
        ELSE defaultIncidents[CHOOSE i \in found : \A j \in found : i <= j].icon

Rebuilt_DefaultStatus(item) ==
    [k |-> "record", id |-> item.id, name |-> item.name, status |-> "ok",
     icon |-> <<"null">>]

\* the element the map callback of the serializable module builds for item
\* (a number has no id, name or status: undefined)
Rebuilt(item) ==
    IF item.k = "number"
    THEN Incident("#undefined", "#undefined", "#undefined", <<"null">>)
    ELSE Incident(item.id, item.name, item.status, MatchingDefault(item.id))

\* what loadIncidentsFromStorage() returns for the entry
loadIncidentsFromStorage(v, entry) ==
    IF ~Truthy(entry) \/ entry.t = "garbage" THEN Defaults
    ELSE IF v = "plain"
         THEN Value(entry.t, [i \in DOMAIN entry.items |->
                        [k |-> entry.items[i].k, id |-> entry.items[i].id,
                         name |-> entry.items[i].name,
                         status |-> entry.items[i].status,
                         icon |-> entry.items[i].icon]])
         ELSE IF entry.t # "array"
                 \/ \E i \in DOMAIN entry.items : entry.items[i].k = "null"
              THEN Defaults
              ELSE Value("array", [i \in DOMAIN entry.items |->
                                      Rebuilt(entry.items[i])])

initializeIncidentStorage_Always(v, entry) ==
    IF v = "plain" THEN StringifyPlain(defaultIncidents)
    ELSE StringifySerializable(defaultIncidents)

\* what initializeIncidentStorage() leaves in the entry
initializeIncidentStorage(v, entry) ==
    IF ~Truthy(entry) THEN saveIncidentsToStorage(v, defaultIncidents)
    ELSE entry

\* the latest operation: its name, the one before it, and for an
\* initialization the entry it found
Op(op, prev, before) == [op |-> op, prev |-> prev, before |-> before]
NoOp == Op("none", "none", Absent)

\* the store untouched: nothing stored, nothing loaded or saved yet
StoreIdle ==
    /\ storeVariant = "plain"
    /\ storage = Absent
    /\ loaded = Value("none", <<>>)
    /\ saved = <<>>
    /\ storeOp = NoOp

\* saveIncidentsToStorage(incidents)
Save(incidents) ==
    /\ storage' = saveIncidentsToStorage(storeVariant, incidents)
    /\ saved' = incidents
    /\ storeOp' = Op("save", storeOp.op, Absent)
    /\ UNCHANGED <<storeVariant, loaded>>
    /\ UNCHANGED <<chatPage, views, dashboard>>

\* loadIncidentsFromStorage()
Load ==
    /\ loaded' = loadIncidentsFromStorage(storeVariant, storage)
    /\ storeOp' = Op("load", storeOp.op, Absent)
    /\ UNCHANGED <<storeVariant, storage, saved>>
    /\ UNCHANGED <<chatPage, views, dashboard>>

\* initializeIncidentStorage()
Initialize ==
    /\ storage' = initializeIncidentStorage(storeVariant, storage)
    /\ storeOp' = Op("init", storeOp.op, storage)
    /\ UNCHANGED <<storeVariant, loaded, saved>>
    /\ UNCHANGED <<chatPage, views, dashboard>>

----------------------------------------------------------------------------
(* The views showing incidents: the user page (Index, TechnicianView) with  *)
(* an IncidentTicker that reads the store, CockpitView, and AdminView with  *)
(* its IncidentManager; each open in a browser tab of its own               *)

Tabs == 1..MaxTabs
ViewKinds == {"user", "cockpit", "admin"}

\* views whose 'storage' / 'incident-update' handler reloads the incidents:
\* the IncidentTicker without incidents prop, and CockpitView
Listeners == {"user", "cockpit"}

\* a tab: the view it shows; incidents, the state the ticker displays
\* (IncidentTicker incidents, CockpitView incidents, AdminView
\* managedIncidents); draft, localIncidents of the IncidentManager; pending,
\* whether 'storage' events fired for the tab wait to be handled (the
\* handlers read the store, not the event, so handling them one by one or
\* together shows the same).  The tickerKey of a ticker is a clock reading
\* that only keys the animation; the firings of the intervals are counted in
\* applyLog.ticks
Tab(kind, incidents, draft, pending) ==
    [kind |-> kind, incidents |-> incidents, draft |-> draft,
     pending |-> pending]
Closed == Tab("closed", <<>>, <<>>, FALSE)
Open(t) == tabs[t].kind # "closed"

ViewsIdle ==
    /\ tabs = [t \in Tabs |-> Closed]
    /\ applyLog = [applies |-> 0, events |-> 0, ticks |-> 0]

\* the records of the entry as a view reads them
Stored(entry) == loadIncidentsFromStorage(storeVariant, entry).items

\* activeIncidents of the ticker
ActiveIncidents(incidents) ==
    SelectSeq(incidents, LAMBDA e : e.status = "incident")

\* the 'storage' event: fired in every other open tab when the entry changes
StorageEvent(ts, t, before, after) ==
    [u \in Tabs |->
        IF u # t /\ ts[u].kind # "closed" /\ before # after
        THEN [ts[u] EXCEPT !.pending = TRUE]
        ELSE ts[u]]

\* A tab opens a view: the view state is initialized from the store and the
\* mount effects run (App and AdminView call initializeIncidentStorage,
\* AdminView loads again after it).  Tabs are numbered as they open.
OpenTab(t, kind) ==
    /\ ~Open(t)
    /\ \A u \in Tabs : u < t => Open(u)
    /\ LET seeded == initializeIncidentStorage(storeVariant, storage)
           shown == IF kind = "admin" THEN Stored(seeded) ELSE Stored(storage)
           mounted == Tab(kind, shown, IF kind = "admin" THEN shown ELSE <<>>,
                          FALSE)
       IN  /\ storage' = seeded
           /\ tabs' = StorageEvent([tabs EXCEPT ![t] = mounted], t,
                                   storage, seeded)
    /\ UNCHANGED <<storeVariant, loaded, saved, storeOp, applyLog>>
    /\ UNCHANGED <<chatPage, dashboard>>

\* a faulty handler: the status is given to every record
Toggled_All(draft, id, isIncident) ==
    [i \in DOMAIN draft |->
        [draft[i] EXCEPT !.status = IF isIncident THEN "incident" ELSE "ok"]]

\* IncidentManager.handleIncidentStatusChange(id, isIncident): a checkbox of
\* the incident manager is clicked
Toggled(draft, id, isIncident) ==
    [i \in DOMAIN draft |->
        IF draft[i].id = id
        THEN [draft[i] EXCEPT
                 !.status = IF isIncident THEN "incident" ELSE "ok"]
        ELSE draft[i]]

Toggle(t, i) ==
    /\ tabs[t].kind = "admin"
    /\ i \in DOMAIN tabs[t].draft
    /\ tabs' = [tabs EXCEPT ![t].draft =
                   Toggled(@, @[i].id, @[i].status # "incident")]
    /\ UNCHANGED <<store, applyLog>>
    /\ UNCHANGED <<chatPage, dashboard>>

Dispatched_None(events) == events

\* window.dispatchEvent(new Event('incident-update')): the listeners of the
\* admin tab itself run; its ticker has the incidents prop and ignores it
Dispatched(events) == events + 1

\* IncidentManager.handleApplyChanges: AdminView.handleIncidentStatusChange
\* (state, save, ticker key, event), then the save of the manager itself
HandleApplyChanges(t) ==
    /\ tabs[t].kind = "admin"
    /\ applyLog.applies < MaxApplies
    /\ LET localIncidents == tabs[t].draft
           entry == saveIncidentsToStorage(storeVariant, localIncidents)
           applied == [tabs[t] EXCEPT !.incidents = localIncidents,
                                      !.draft = localIncidents]
       IN  /\ storage' = entry
           /\ saved' = localIncidents
           /\ storeOp' = Op("save", storeOp.op, Absent)
           /\ tabs' = StorageEvent([tabs EXCEPT ![t] = applied], t,
                                   storage, entry)
    /\ applyLog' = [applyLog EXCEPT !.applies = @ + 1,
                                    !.events = Dispatched(@)]
    /\ UNCHANGED <<storeVariant, loaded>>
    /\ UNCHANGED <<chatPage, dashboard>>

\* IncidentManager.handleReset
HandleReset(t) ==
    /\ tabs[t].kind = "admin"
    /\ tabs' = [tabs EXCEPT ![t].draft = Stored(storage)]
    /\ UNCHANGED <<store, applyLog>>
    /\ UNCHANGED <<chatPage, dashboard>>

HandleStorageChange_Ignored(kind, incidents, stored) == incidents

\* handleStorageChange of the view: the incidents it shows afterwards
HandleStorageChange(kind, incidents, stored) ==
    IF kind \in Listeners THEN stored ELSE incidents

\* the 'storage' events waiting in tab t are handled
Deliver(t) ==
    /\ Open(t)
    /\ tabs[t].pending
    /\ tabs' = [tabs EXCEPT
                   ![t].pending = FALSE,
                   ![t].incidents =
                       HandleStorageChange(tabs[t].kind, @, Stored(storage))]
    /\ UNCHANGED <<store, applyLog>>
    /\ UNCHANGED <<chatPage, dashboard>>

\* the 30 s interval of the ticker of tab t fires: a new tickerKey, the
\* incidents stay
TickerRefresh(t) ==
    /\ Open(t)
    /\ applyLog.ticks < MaxTicks
    /\ applyLog' = [applyLog EXCEPT !.ticks = @ + 1]
    /\ UNCHANGED <<store, tabs>>
    /\ UNCHANGED <<chatPage, dashboard>>

----------------------------------------------------------------------------
(* lib/api: the read functions getTrendingQuestions, getChatbotStats,       *)
(* getApplicationStats and getHourlyIncidents                               *)

ReadFunctions == {"getTrendingQuestions", "getChatbotStats",
                  "getApplicationStats", "getHourlyIncidents"}

\* the statistics record returned in place of a failure
ZeroStats == [daily_messages |-> 0, weekly_messages |-> 0,
              total_messages |-> 0, current_sessions |-> 0]
SomeStats == [daily_messages |-> 4, weekly_messages |-> 9,
              total_messages |-> 9, current_sessions |-> 1]

\* what the function returns in its catch blocks
Fallback(fn) == IF fn = "getChatbotStats" THEN ZeroStats ELSE <<>>

\* JSON bodies the backend sends for the function
Bodies(fn) ==
    IF fn = "getChatbotStats" THEN {ZeroStats, SomeStats} ELSE {<<>>, <<"q1">>}

\* what a request meets: fetch rejects ("network"), response.text() rejects
\* ("text"), a status outside 2xx ("status"), a 2xx body that is no JSON
\* ("unparsable"), a 2xx JSON body ("object")
Reply(kind, body) == [kind |-> kind, body |-> body]
NoReply(fn) == Reply("none", Fallback(fn))
Replies(fn) ==
    {Reply(kind, Fallback(fn)) : kind \in {"network", "text", "unparsable"}}
    \cup {Reply(kind, body) : kind \in {"status", "object"}, body \in Bodies(fn)}
FailureKinds == {"network", "text", "status", "unparsable"}

\* how a block of code ends: with a value, or with an exception
Returned(value) == [threw |-> FALSE, value |-> value]
Threw(fallback) == [threw |-> TRUE, value |-> fallback]

\* the try block: fetch, response.text(), the status test with its throw,
\* and the inner try around JSON.parse with its catch
Tried(reply, fallback) ==
    IF reply.kind \in {"network", "text", "status"} THEN Threw(fallback)
    ELSE IF reply.kind = "unparsable" THEN Returned(fallback)
    ELSE Returned(reply.body)

CatchAll_Rethrows(tried, fallback) == tried

\* the outer catch block: log and return the fallback
CatchAll(tried, fallback) ==
    IF tried.threw THEN Returned(fallback) ELSE tried

\* a call of read function fn whose request meets reply
ReadCall(fn, reply) == CatchAll(Tried(reply, Fallback(fn)), Fallback(fn))

ReadsIdle ==
    reads = [fn \in ReadFunctions |->
                [reply |-> NoReply(fn), result |-> Returned(Fallback(fn))]]

\* a call of fn settles
ReadSettles(fn, reply) ==
    /\ reads' = [reads EXCEPT ![fn] = [reply |-> reply,
                                       result |-> ReadCall(fn, reply)]]
    /\ UNCHANGED <<chatPage, store, views>>

----------------------------------------------------------------------------
(* Specification of one conversation: the ChatInterface instance mounted at *)
(* page load, its exchanges and its trending-question refreshes             *)

\* after construction: the api module is loaded, Index and ChatInterface are
\* mounted, and the mount effect has called fetchTrendingQuestions()
ChatMounted(v) ==
    /\ messages = <<>>
    /\ loading = FALSE
    /\ loadingMessage = FALSE
    /\ trendingQuestionsData = <<>>
    /\ calls = <<>>
    /\ trendFetches = FetchStarted(<<>>, 0)
    /\ trendLog = AtMount
    /\ chatKey = 0
    /\ isAnimated = FALSE
    /\ clears = <<>>
    /\ variant = v
    /\ SESSION_ID = FirstSessionId
    /\ storedSession = InitialStored(v)
    /\ nextUuid = FirstSessionId + 1
    /\ convSessions = {}
    /\ lastReset = [before |-> 0, after |-> 0]
    /\ feedbackState = <<>>
    /\ feedbackRequests = <<>>

Idle == StoreIdle /\ ViewsIdle /\ ReadsIdle

InitWith(v) == ChatMounted(v) /\ Idle

Init == InitWith("pageload")

Next ==
    \/ \E viaInput \in BOOLEAN, content \in UserTexts :
           HandleSendMessage(viaInput, content)
    \/ \E c \in CallIds, http \in ChatHttp : ChatSettles(c, http)
    \/ \E c \in CallIds : DelayElapsed(c)
    \/ \E c \in CallIds : DocDelayElapsed(c)
    \/ \E i \in 1..Len(trendFetches), reply \in TrendReplies :
           TrendSettles(i, reply.kind, reply.body)

Spec == Init /\ [][Next]_vars

----------------------------------------------------------------------------
(* Specification of the page across conversations: the three api modules,   *)
(* new-chat actions, and exchanges whose replies are a failure, a single    *)
(* answer or a two-part answer                                              *)

SessionChatHttp ==
    {Http("status", <<>>, <<>>, Undefined),
     Http("object", <<"a">>, <<>>, Num(7)),
     Http("object", <<"a">>, <<<<"PARTIE", "a">>, <<"PARTIE", "a">>>>, Num(7))}

InitSession == \E v \in Variants : InitWith(v)

NextSession ==
    \/ \E viaInput \in BOOLEAN, content \in UserTexts \cup {"q2"} :
           HandleSendMessage(viaInput, content)
    \/ \E c \in CallIds, http \in SessionChatHttp : ChatSettles(c, http)
    \/ \E c \in CallIds : DelayElapsed(c)
    \/ \E i \in 1..Len(trendFetches) : TrendSettles(i, "object", <<"q2", "q1">>)
    \/ HandleNewChat
    \/ \E k \in 1..Len(clears), kind \in ClearKinds : ClearSettles(k, kind)

SpecSession == InitSession /\ [][NextSession]_vars

----------------------------------------------------------------------------
(* Specification of the feedback buttons: exchanges typed into the input,   *)
(* answered by a single or a two-part answer, and clicks on the buttons     *)

FeedbackChatHttp ==
    {Http("object", <<"a">>, <<>>, m) : m \in MessageIds}
    \cup {Http("object", <<"a">>, <<<<"PARTIE", "a">>, <<"PARTIE", "a">>>>, Num(7))}

NextFeedback ==
    \/ \E content \in UserTexts : HandleSendMessage(TRUE, content)
    \/ \E c \in CallIds, http \in FeedbackChatHttp : ChatSettles(c, http)
    \/ \E c \in CallIds : DelayElapsed(c)
    \/ \E i \in 1..Len(trendFetches) : TrendSettles(i, "network", <<>>)
    \/ TrendTimer
    \/ \E i \in 1..Len(messages), type \in {"positive", "negative"} :
           HandleFeedback(i, type)
    \/ \E r \in 1..Len(feedbackRequests), kind \in FeedbackKinds :
           FeedbackSettles(r, kind)

SpecFeedback == Init /\ [][NextFeedback]_vars

----------------------------------------------------------------------------
(* The conversation under the scheduling the claims assume: every pending   *)
(* fetch settles and every pending timer fires                              *)

\* one reply of each shape handleSendMessage distinguishes: a failure of
\* sendMessage, a plain answer, an answer with a document part, a list of
\* parts, a list of parts whose last entry is not a string
LiveChatHttp ==
    {Http("network", <<>>, <<>>, Undefined),
     Http("null", <<>>, <<>>, Undefined),
     Http("object", <<"a">>, <<>>, Num(7)),
     Http("object", <<"a", "DOCSEP", "b">>, <<>>, Num(7)),
     Http("object", <<"a">>, <<<<"PARTIE", "a">>, <<"PARTIE", "a">>>>, Num(7)),
     Http("object", <<"a">>, <<<<"PARTIE", "a">>, NotAString>>, Num(7))}

LiveNext ==
    \/ \E viaInput \in BOOLEAN, content \in UserTexts :
           HandleSendMessage(viaInput, content)
    \/ \E c \in CallIds, http \in LiveChatHttp : ChatSettles(c, http)
    \/ \E c \in CallIds : DelayElapsed(c)
    \/ \E c \in CallIds : DocDelayElapsed(c)
    \/ \E i \in 1..Len(trendFetches), kind \in {"network", "object"} :
           TrendSettles(i, kind, <<"q1">>)

Fairness ==
    /\ WF_vars(\E c \in CallIds, http \in LiveChatHttp : ChatSettles(c, http))
    /\ WF_vars(\E c \in CallIds : DelayElapsed(c))
    /\ WF_vars(\E c \in CallIds : DocDelayElapsed(c))
    /\ WF_vars(\E i \in 1..Len(trendFetches), kind \in {"network", "object"} :
                  TrendSettles(i, kind, <<"q1">>))

LiveSpec == Init /\ [][LiveNext]_vars /\ Fairness

----------------------------------------------------------------------------
(* Specification of the trending questions: refreshes of the mount effect,  *)
(* of the interval and of completed exchanges that overlap, answered by a   *)
(* failure or by lists of questions, and clicks on the displayed questions  *)

TrendingBodies == {<<>>, <<"q1">>, <<"q2", "q1">>}
TrendingReplies ==
    {[kind |-> k, body |-> <<>>] : k \in TrendKinds \ {"object"}}
    \cup {[kind |-> "object", body |-> b] : b \in TrendingBodies}

NextTrending ==
    \/ IntervalFires(MaxOverlap)
    \/ \E i \in 1..Len(trendFetches), reply \in TrendingReplies :
           TrendSettles(i, reply.kind, reply.body)
    \/ \E content \in {"q1", "q2"} : HandleSendMessage(FALSE, content)
    \/ \E c \in CallIds :
           ChatSettles(c, Http("object", <<"a">>, <<>>, Num(7)))

SpecTrending == Init /\ [][NextTrending]_vars

----------------------------------------------------------------------------
(* Specification of the incident store: the three functions of              *)
(* utils/incidentStorage applied in any order to any entry                  *)

\* entries the application did not write: none, the empty string, text that
\* is no JSON, JSON that is no array, arrays of something else than records
ForeignEntries ==
    {Absent, Entry("empty", <<>>), Entry("garbage", <<>>), Entry("null", <<>>),
     Entry("object", <<>>), Entry("number", <<>>),
     Entry("array", <<JsonItem(NullItem, <<>>, "")>>),
     Entry("array", <<JsonItem(NumberItem, <<>>, "")>>)}

InitStore ==
    /\ ChatMounted("pageload")
    /\ storeVariant \in StoreVariants
    /\ storage \in ForeignEntries
    /\ loaded = Value("none", <<>>)
    /\ saved = <<>>
    /\ storeOp = NoOp
    /\ ViewsIdle
    /\ ReadsIdle

NextStore ==
    \/ \E incidents \in Collections : Save(incidents)
    \/ Load
    \/ Initialize

SpecStore == InitStore /\ [][NextStore]_vars

----------------------------------------------------------------------------
(* Specification of the incident views: tabs open on one origin, sharing    *)
(* the localStorage entry                                                   *)

InitTabs ==
    /\ ChatMounted("pageload")
    /\ storeVariant \in StoreVariants
    /\ storage = Absent
    /\ loaded = Value("none", <<>>)
    /\ saved = <<>>
    /\ storeOp = NoOp
    /\ ViewsIdle
    /\ ReadsIdle

NextTabs ==
    \/ \E t \in Tabs, kind \in ViewKinds : OpenTab(t, kind)
    \/ \E t \in Tabs, i \in 1..MaxIncidents : Toggle(t, i)
    \/ \E t \in Tabs : HandleApplyChanges(t)
    \/ \E t \in Tabs : HandleReset(t)
    \/ \E t \in Tabs : Deliver(t)

SpecTabs == InitTabs /\ [][NextTabs]_vars

----------------------------------------------------------------------------
(* Specification of the administration of incidents: admin tabs and user    *)
(* tabs, with the interval of their tickers                                 *)

NextAdmin ==
    \/ \E t \in Tabs, kind \in {"user", "admin"} : OpenTab(t, kind)
    \/ \E t \in Tabs, i \in 1..MaxIncidents : Toggle(t, i)
    \/ \E t \in Tabs : HandleApplyChanges(t)
    \/ \E t \in Tabs : HandleReset(t)
    \/ \E t \in Tabs : Deliver(t)
    \/ \E t \in Tabs : TickerRefresh(t)

SpecAdmin == InitTabs /\ [][NextAdmin]_vars

----------------------------------------------------------------------------
(* Specification of the read functions of the api: calls of the four        *)
(* functions, each meeting any reply                                        *)

InitApi == InitWith("pageload")

NextApi == \E fn \in ReadFunctions : \E reply \in Replies(fn) :
               ReadSettles(fn, reply)

SpecApi == InitApi /\ [][NextApi]_vars

----------------------------------------------------------------------------
(* Vocabulary of the claims *)

SomeInFlight == \E c \in CallIds : InFlight(c)
InFlightCalls == {c \in CallIds : InFlight(c)}

\* indices of the assistant messages invocation c has put in the history
TurnOf(c) == {i \in 1..Len(messages) :
                 messages[i].role = "assistant" /\ messages[i].call = c}

\* a loading entry inside the history (the document-search entry)
LoadingEntries == {i \in 1..Len(messages) : messages[i].isLoading}

\* no indicator is displayed: neither loadingMessage nor a loading entry
NoIndicator == ~loadingMessage /\ LoadingEntries = {}

\* C5: once an invocation of handleSendMessage is in progress, the controller
\* reaches a state with loading = false and no loading or typing indicator
\* displayed, given that pending fetches settle and pending timers fire.
C5_LoadingEnds == SomeInFlight ~> (~loading /\ NoIndicator /\ ~SomeInFlight)

\* two invocations, one of them failed, have ended and the chat is idle again
C5_IdleAgain ==
    /\ Len(calls) >= 2
    /\ ~SomeInFlight
    /\ \E c \in CallIds : calls[c].outcome = "failed"
    /\ \E c \in CallIds : calls[c].outcome = "ok"
    /\ ~loading /\ NoIndicator

----------------------------------------------------------------------------
(* Claims about handleSendMessage, checked under Spec *)

\* the number of assistant messages the reply of a completed invocation calls for
ExpectedParts(http) ==
    IF IsMultiPart(http) THEN Len(http.message_parts)
    ELSE IF DocumentPart(http.answer) # <<>> THEN 2 ELSE 1

RECURSIVE ExtraParts(_)
ExtraParts(n) ==
    IF n = 0 THEN 0 ELSE ExtraParts(n - 1) + ExpectedParts(calls[n].http) - 1

AllSucceeded ==
    /\ calls # <<>>
    /\ \A c \in CallIds : calls[c].pc = "done" /\ calls[c].outcome = "ok"

\* the messages of the turn of invocation c that are rendered as last in sequence
FlaggedInTurn(c) == {i \in TurnOf(c) : RenderedIsLast(messages, i)}

\* the invocations ran one after the other: no message of an earlier one
\* follows a message of a later one
Sequential ==
    \A i, j \in 1..Len(messages) : i < j => messages[i].call <= messages[j].call

\* C1: after N invocations of handleSendMessage that all completed
\* successfully, the history holds 2N messages plus the additional parts of
\* the replies, and in the turn of every invocation exactly one assistant
\* message is rendered with isLastInSequence = true.
C1_HistoryAndTurns ==
    AllSucceeded =>
        /\ Len(messages) = 2 * Len(calls) + ExtraParts(Len(calls))
        /\ \A c \in CallIds : Cardinality(FlaggedInTurn(c)) = 1

\* the part of C1 the code keeps whatever the interleaving: the length
C1_Length ==
    AllSucceeded => Len(messages) = 2 * Len(calls) + ExtraParts(Len(calls))

\* the part of C1 the code keeps when the invocations do not overlap
C1_TurnsWhenSequential ==
    AllSucceeded /\ Sequential =>
        \A c \in CallIds : Cardinality(FlaggedInTurn(c)) = 1

\* two invocations completed one after the other, one of them in several parts
C1_SequentialReached ==
    /\ AllSucceeded /\ Sequential /\ Len(calls) = 2
    /\ \E c \in CallIds : ExpectedParts(calls[c].http) > 1

\* the replies of two overlapping invocations follow each other in the history
C1_OverlapReached ==
    /\ AllSucceeded /\ ~Sequential
    /\ \E c \in CallIds : FlaggedInTurn(c) = {}

\* C2: for a reply with more than one entry in message_parts the history
\* holds the parts of the invocation in increasing index, each with the text
\* of its entry, never more parts than typing delays have elapsed plus one;
\* only the last part is stored with isLastInSequence = true, and a completed
\* invocation has appended every part.
C2_PartsInOrder ==
    \A c \in CallIds :
        IsMultiPart(calls[c].http) =>
            LET parts == calls[c].http.message_parts
                turn == TurnOf(c)
            IN  /\ \A i \in turn :
                       /\ messages[i].part = Cardinality({j \in turn : j < i})
                       /\ messages[i].part < Len(parts)
                       /\ messages[i].content =
                              StripPartie(parts[messages[i].part + 1])
                       /\ (messages[i].isLastInSequence = "true")
                              <=> (messages[i].part = Len(parts) - 1)
                /\ Cardinality(turn) <= calls[c].timers + 1
                /\ calls[c].pc = "delay" => Cardinality(turn) = calls[c].idx + 1
                /\ calls[c].outcome = "ok" => Cardinality(turn) = Len(parts)

\* a reply in several parts has been displayed completely
C2_AllPartsShown ==
    \E c \in CallIds :
        /\ IsMultiPart(calls[c].http)
        /\ calls[c].outcome = "ok"
        /\ Cardinality(TurnOf(c)) = Len(calls[c].http.message_parts)
        /\ calls[c].timers = Len(calls[c].http.message_parts) - 1

\* a reply that is one answer: no list of parts, no separator, no delimiter
SinglePlain(http) ==
    /\ http.kind = "object"
    /\ ~IsMultiPart(http)
    /\ IsString(http.answer)
    /\ \A i \in 1..Len(http.answer) : http.answer[i] \notin {"PARTIE", "DOCSEP"}

\* C3: an invocation started on an empty history whose reply is one answer
\* ends with exactly the user message with the sent text followed by the
\* assistant message with the answer text, and no loading indicator.
C3_SingleAnswer ==
    (/\ Len(calls) = 1
     /\ calls[1].pc = "done" /\ calls[1].outcome = "ok"
     /\ SinglePlain(calls[1].http))
    => /\ Len(messages) = 2
       /\ messages[1].role = "user"
       /\ messages[1].content = calls[1].content
       /\ messages[2].role = "assistant"
       /\ messages[2].content = calls[1].http.answer
       /\ ~messages[2].isLoading
       /\ NoIndicator
       /\ ~loading

\* the single answer has been displayed
C3_SingleAnswerShown ==
    /\ Len(calls) = 1
    /\ calls[1].pc = "done" /\ calls[1].outcome = "ok"
    /\ SinglePlain(calls[1].http)
    /\ Len(messages) = 2

\* C4: a failed invocation of handleSendMessage has raised the error
\* notification and has left no assistant message of its own in the history.
C4_NoPartialMessage ==
    \A c \in CallIds :
        calls[c].outcome = "failed" => calls[c].toast /\ TurnOf(c) = {}

\* C6: at most one invocation of handleSendMessage is unfinished at any time.
C6_SingleInFlight == Cardinality(InFlightCalls) <= 1

----------------------------------------------------------------------------
(* Claims about the session identifier and the new-chat action, checked     *)
(* under SpecSession                                                        *)

\* handleNewChat invocation k ends in this step
NewChatCompletes(k) ==
    /\ k \in 1..Len(clears')
    /\ clears'[k].pc = "done"
    /\ (k \in 1..Len(clears) => clears[k].pc = "await")

\* the /clear_history call of invocation k came back as a failure of
\* clearConversation: a rejected fetch, or for api.ts a non-2xx status
ClearFailed(k) ==
    \/ clears'[k].kind = "network"
    \/ (clears'[k].kind = "status" /\ variant = "pageload")

----------------------------------------------------------------------------
(* Claim about the feedback buttons, checked under SpecFeedback *)

\* C10: every /feedback request carries the identifier the backend assigned
\* to the message its buttons are attached to, and none is sent for a message
\* without such an identifier.
C10_FeedbackCarriesMessageId ==
    \A r \in 1..Len(feedbackRequests) :
        /\ feedbackRequests[r].of_message.t = "num"
        /\ feedbackRequests[r].of_message.n >= 0
        /\ feedbackRequests[r].message_id = feedbackRequests[r].of_message


----------------------------------------------------------------------------
(* The incident store *)

\* the latest operation is a load that follows a save
LoadedAfterSave == storeOp.op = "load" /\ storeOp.prev = "save"

\* C11: a load that follows save(X) returns a collection with the records of
\* X in the order of X, each with the id, name and status it had
C11_RoundTrip ==
    LoadedAfterSave =>
        /\ loaded.t = "array"
        /\ Cores(loaded.items) = Cores(saved)

\* a load has returned a saved collection in which an application is marked
C11_MarkedLoaded ==
    /\ LoadedAfterSave
    /\ storeVariant = "serializable"
    /\ Len(saved) = MaxIncidents
    /\ \E i \in DOMAIN saved : saved[i].status = "incident"
    /\ \E i \in DOMAIN saved : saved[i].id = "x"

\* C12: initializeIncidentStorage seeds the default set when it finds no
\* entry, leaves an entry holding a collection as it is, and a second call
\* changes nothing
C12_InitializeIdempotent ==
    storeOp.op = "init" =>
        /\ storeOp.before = Absent =>
               storage = saveIncidentsToStorage(storeVariant, defaultIncidents)
        /\ storeOp.before.t = "array" => storage = storeOp.before
        /\ initializeIncidentStorage(storeVariant, storage) = storage

\* initialization has run twice on a collection an administrator saved
C12_InitializedTwice ==
    /\ storeOp.op = "init"
    /\ storeOp.prev = "init"
    /\ storage = saveIncidentsToStorage(storeVariant, saved)
    /\ \E i \in DOMAIN saved : saved[i].status = "incident"

\* the entry denotes a collection of records
RecordCollection(entry) ==
    /\ entry.t = "array"
    /\ \A i \in DOMAIN entry.items : entry.items[i].k = "record"

\* C13: a load returns a collection of records, and the default set when the
\* entry is absent or does not denote a collection of records
C13_LoadFallsBack ==
    storeOp.op = "load" =>
        /\ loaded.t = "array"
        /\ \A i \in DOMAIN loaded.items :
               /\ loaded.items[i].k = "record"
               /\ loaded.items[i].id # "#undefined"
        /\ ~RecordCollection(storage) => loaded = Defaults

\* a load has found an entry that holds the JSON text null
C13_NullEntryLoaded ==
    /\ storeOp.op = "load"
    /\ storage.t = "null"
    /\ storeVariant = "plain"

----------------------------------------------------------------------------
(* The incident views *)

\* id, name and status of the records in the entry
StoredCores == Cores(Stored(storage))

\* C14: when a view that listens for changes handles one change
\* notification, its ticker shows the applications marked as incidents in
\* the store, without the tab being reloaded
C14_TickerFollowsStore ==
    [][\A u \in Tabs :
           (tabs[u].kind \in Listeners /\ tabs[u].pending /\ ~tabs'[u].pending)
           => Cores(ActiveIncidents(tabs'[u].incidents))
                  = Cores(ActiveIncidents(Stored(storage')))]_vars

\* a user tab opened first, before anything was marked, shows after handling
\* the notification the application an admin tab opened later has applied
C14_IncidentArrived ==
    \E u, a \in Tabs :
        /\ u < a
        /\ \A t \in Tabs : Open(t) => t = u \/ t = a
        /\ tabs[u].kind = "user" /\ tabs[a].kind = "admin"
        /\ ~tabs[u].pending
        /\ ActiveIncidents(tabs[u].incidents) # <<>>
        /\ Cores(tabs[u].incidents) = Cores(tabs[a].incidents)

\* every notification has been handled
Quiescent == \A t \in Tabs : ~tabs[t].pending

\* C15: once all notifications are handled, every open view shows the
\* records of the store
C15_ViewsConverge ==
    Quiescent =>
        \A t \in Tabs : Open(t) => Cores(tabs[t].incidents) = StoredCores

\* an admin tab that handled every notification still shows other records
\* than the store holds
C15_StaleAdminView ==
    /\ Quiescent
    /\ \E t \in Tabs :
           /\ tabs[t].kind = "admin"
           /\ tabs[t].draft = tabs[t].incidents
           /\ Cores(tabs[t].incidents) # StoredCores

\* C16: after saves from several admin tabs the store holds the whole
\* collection of the latest save and nothing of the earlier ones
C16_LastWriteWins ==
    storeOp.op = "save" =>
        /\ Len(Stored(storage)) = Len(saved)
        /\ StoredCores = Cores(saved)

\* two admin tabs, the only ones open, have applied different collections:
\* the store holds the later one, in which the application marked by the
\* earlier one is not marked
C16_EarlierSaveLost ==
    \E a, b \in Tabs :
        /\ a < b
        /\ \A t \in Tabs : Open(t) => t = a \/ t = b
        /\ tabs[a].kind = "admin" /\ tabs[b].kind = "admin"
        /\ saved = tabs[b].incidents
        /\ StoredCores = Cores(saved)
        /\ \E i \in DOMAIN tabs[a].incidents :
               /\ tabs[a].incidents[i].status = "incident"
               /\ \E j \in DOMAIN saved :
                      /\ saved[j].id = tabs[a].incidents[i].id
                      /\ saved[j].status = "ok"
        /\ ActiveIncidents(saved) # <<>>

\* the step is an apply
ApplyStep == applyLog'.applies = applyLog.applies + 1

----------------------------------------------------------------------------
(* The read functions of the api *)

\* C18: a read function whose request failed (transport, status outside
\* 2xx, body that is no JSON) returns its fallback, the empty sequence or
\* the all-zero statistics, and no call ends with an exception; the value
\* getTrendingQuestions hands to the chat page is the one of such a call
C18_ReadsNeverThrow ==
    /\ \A fn \in ReadFunctions :
           /\ ~reads[fn].result.threw
           /\ reads[fn].reply.kind \in FailureKinds
                  => reads[fn].result.value = Fallback(fn)
    /\ reads["getChatbotStats"].reply.kind \in FailureKinds
           => reads["getChatbotStats"].result.value = ZeroStats
    /\ LET r == reads["getTrendingQuestions"].reply
       IN  r.kind \in {"network", "status", "unparsable", "object"}
               => reads["getTrendingQuestions"].result.value
                      = getTrendingQuestions(r.kind, r.body)

\* each of the four functions has met a failure of another kind
C18_AllFailed ==
    /\ reads["getTrendingQuestions"].reply.kind = "network"
    /\ reads["getChatbotStats"].reply = Reply("status", SomeStats)
    /\ reads["getApplicationStats"].reply.kind = "unparsable"
    /\ reads["getHourlyIncidents"].reply.kind = "text"

----------------------------------------------------------------------------
(* The end of an exchange, and exchanges cut off by a new conversation *)

\* C19: every invocation of handleSendMessage that has ended, with a reply
\* or with a failure, has started a refresh of the trending questions and
\* has put the focus back into the text field
C19_RefreshAndFocus ==
    \A c \in CallIds :
        calls[c].pc = "done" => calls[c].refreshed /\ calls[c].focused

\* an invocation whose request failed has ended with the focus in the text
\* field and without a refresh of the trending questions
C19_FailedWithoutRefresh ==
    \E c \in CallIds :
        /\ calls[c].pc = "done"
        /\ calls[c].outcome = "failed"
        /\ calls[c].focused
        /\ ~calls[c].refreshed

\* C20: the history on the page holds only messages of invocations made by
\* the instance on the page: what an invocation begun before a new
\* conversation produces never shows in the new conversation
C20_OldReplyDropped ==
    \A i \in DOMAIN messages : calls[messages[i].call].key = chatKey

\* an invocation begun before a new conversation received its reply after
\* it, and the new conversation has an exchange of its own
C20_ReplyAfterNewChat ==
    /\ \E c \in CallIds :
           /\ calls[c].key # chatKey
           /\ calls[c].pc = "done"
           /\ calls[c].outcome = "ok"
           /\ calls[c].content = ""
    /\ \E i \in DOMAIN messages : messages[i].role = "assistant"

----------------------------------------------------------------------------
(* The history of one conversation *)

IsPrefix(s, t) == Len(s) <= Len(t) /\ SubSeq(t, 1, Len(s)) = s

\* C21: while the conversation stays the same, every step leaves the history
\* as it was or longer at its end, and no entry of the history is a loading
\* indicator
C21_AppendOnly ==
    [][chatKey' = chatKey =>
           /\ IsPrefix(messages, messages')
           /\ \A i \in DOMAIN messages' : ~messages'[i].isLoading]_vars

\* the document-search loading entry is an element of the history, after the
\* main answer of its invocation
C21_LoadingEntryInHistory ==
    \E i \in DOMAIN messages :
        /\ messages[i].isLoading
        /\ i > 1
        /\ messages[i - 1] = InitialBotResponse(calls[messages[i].call].http.answer,
                                  calls[messages[i].call].http.message_id,
                                  messages[i].call)


\* C22: every append of an answer or a part finds the loading indicator
\* absent, and while an invocation waits between two parts the typing
\* indicator is displayed
C22_IndicatorDiscipline ==
    \A c \in CallIds :
        /\ ~calls[c].indicated
        /\ calls[c].pc = "delay" /\ Mounted(c) => loadingMessage

\* the part of C22 the code keeps whatever the interleaving: no answer and no
\* part is appended while the indicator is displayed
C22_ClearedBeforeAppend == \A c \in CallIds : ~calls[c].indicated

\* the part of C22 the code keeps for an invocation that runs alone
C22_TypingWhenAlone ==
    \A c \in CallIds :
        calls[c].pc = "delay" /\ Len(calls) = 1 => loadingMessage

\* an invocation waits between two parts and no indicator is displayed
C22_DelayWithoutIndicator ==
    \E c \in CallIds :
        /\ calls[c].pc = "delay" /\ Mounted(c)
        /\ TurnOf(c) # {}
        /\ ~loadingMessage

\* the /chat requests issued so far
RECURSIVE RequestsOf(_, _)
RequestsOf(cs, n) == IF n = 0 THEN 0 ELSE RequestsOf(cs, n - 1) + cs[n].requests
ChatRequests(cs) == RequestsOf(cs, Len(cs))

\* C23: every invocation of handleSendMessage issues exactly one /chat
\* request, and a step issues a request only when it is a new invocation; an
\* invocation that failed stays ended
C23_NoRetry ==
    [][/\ \A c \in 1..Len(calls') : calls'[c].requests = 1
       /\ ChatRequests(calls') # ChatRequests(calls)
          => /\ Len(calls') = Len(calls) + 1
             /\ ChatRequests(calls') = ChatRequests(calls) + 1
             /\ messages' = Append(messages,
                                   UserMessage(calls'[Len(calls')].content,
                                               Len(calls')))
       /\ \A c \in CallIds :
             calls[c].outcome = "failed"
             => calls'[c].outcome = "failed" /\ calls'[c].pc = "done"]_vars

\* an invocation failed, a later one was started by the user and sent its own
\* request
C23_FailedThenNewAction ==
    \E c, d \in CallIds :
        /\ c < d
        /\ calls[c].outcome = "failed" /\ calls[c].requests = 1
        /\ calls[d].requests = 1


----------------------------------------------------------------------------
(* Claims about the feedback requests, checked under SpecFeedback *)

FeedbackIds == 1..Len(feedbackRequests)

\* request r settles in this step with a failure of sendFeedback
FeedbackFails(r) ==
    /\ feedbackRequests[r].pc = "await"
    /\ feedbackRequests'[r].pc = "done"
    /\ feedbackRequests'[r].reply \in {"status", "network"}

\* C24: when the /feedback request fails (rejected fetch or non-2xx status),
\* the step that ends it raises the error notification and leaves the buttons
\* of the message not loading
C24_FailureSurfaced ==
    [][\A r \in FeedbackIds :
          FeedbackFails(r) =>
              /\ feedbackRequests'[r].toast = "error"
              /\ feedbackRequests[r].key = chatKey
                 => ~feedbackState'[feedbackRequests[r].index].loading]_vars

\* a /feedback request answered with a non-2xx status has ended with the error
\* notification and buttons that are not loading
C24_FailedFeedback ==
    \E r \in FeedbackIds :
        /\ feedbackRequests[r].pc = "done"
        /\ feedbackRequests[r].reply = "status"
        /\ feedbackRequests[r].toast = "error"
        /\ ~FbState(feedbackRequests[r].index).loading

\* the buttons under message i go to loading in this step
ClickTaken(i) == ~FbState(i).loading /\ i \in DOMAIN feedbackState'
                 /\ feedbackState'[i].loading

----------------------------------------------------------------------------
(* Claims about the trending questions, checked under SpecTrending *)

\* a refresh of the mounted instance ends in this step
RefreshEnds ==
    /\ chatKey' = chatKey
    /\ Len(trendFetches') = Len(trendFetches) - 1

\* C26: the step that ends a refresh leaves as displayed questions exactly
\* what getTrendingQuestions returned, in its order, whatever was displayed
\* before; getTrendingQuestions returns the empty list for every failure
C26_ReplacedWholesale ==
    [][RefreshEnds =>
          /\ trendingQuestionsData' = trendLog'.arrived
          /\ \A reply \in TrendingReplies :
                /\ reply.kind # "object"
                   => getTrendingQuestions(reply.kind, reply.body) = <<>>
                /\ reply.kind = "object"
                   => getTrendingQuestions(reply.kind, reply.body) = reply.body]_vars

\* the question "q2" was displayed and clicked, and a later refresh left no
\* question displayed
C26_ClearedAfterShown ==
    /\ trendingQuestionsData = <<>>
    /\ trendLog.arrived = <<>>
    /\ \E c \in CallIds : calls[c].content = "q2"

\* C29: when the last refresh in flight ends after a refresh issued later
\* than it, the displayed questions are those of the later-issued refresh
C29_LastIssuedWins ==
    [][(/\ RefreshEnds
        /\ trendFetches' = <<>>
        /\ trendLog.overtaken[1] # <<>>)
       => trendingQuestionsData' = trendLog.overtaken[1][1]]_vars

\* the part of C29 the code keeps: when the refreshes end in the order of
\* their issue, the displayed questions are those of the last one issued
C29_InOrder ==
    [][(/\ RefreshEnds
        /\ trendFetches' = <<>>
        /\ trendLog.overtaken[1] = <<>>)
       => trendingQuestionsData' = trendLog'.arrived]_vars

\* two refreshes overlapped, the one issued last has ended and its questions
\* are displayed, and the one issued first is still in flight
C29_Overtaken ==
    /\ Len(trendFetches) = 1
    /\ trendLog.overtaken[1] = << <<"q1">> >>
    /\ trendingQuestionsData = <<"q1">>


----------------------------------------------------------------------------
(* Claim about the ids of the incident collection, checked under SpecTabs *)

\* the ids and names of a collection, in its order
IdsAndNames(incidents) ==
    [i \in DOMAIN incidents |-> <<incidents[i].id, incidents[i].name>>]

SameApplications(incidents) ==
    IdsAndNames(incidents) = IdsAndNames(defaultIncidents)

\* C27: the stored collection, the collection every open view displays, the
\* draft of every incident manager and the collection saved last hold the
\* ids and names of the default set in its order, no id twice; and a toggle
\* of a draft for any id changes the status of the record with that id and
\* nothing else
C27_IdsPreserved ==
    /\ SameApplications(Stored(storage))
    /\ saved # <<>> => SameApplications(saved)
    /\ \A t \in Tabs :
          Open(t) =>
              /\ SameApplications(tabs[t].incidents)
              /\ \A i, j \in DOMAIN tabs[t].incidents :
                    tabs[t].incidents[i].id = tabs[t].incidents[j].id => i = j
              /\ tabs[t].kind = "admin" =>
                    /\ SameApplications(tabs[t].draft)
                    /\ \A id \in AppIds, isIncident \in BOOLEAN :
                          LET draft == tabs[t].draft
                              after == Toggled(draft, id, isIncident)
                          IN  /\ DOMAIN after = DOMAIN draft
                              /\ \A i \in DOMAIN draft :
                                    IF draft[i].id = id
                                    THEN /\ after[i].status =
                                               (IF isIncident THEN "incident"
                                                ELSE "ok")
                                         /\ after[i].id = draft[i].id
                                         /\ after[i].name = draft[i].name
                                         /\ after[i].icon = draft[i].icon
                                    ELSE after[i] = draft[i]

\* an incident manager whose draft has the first application toggled to
\* incident and applied, then the second toggled in the draft only
C27_ToggledAndApplied ==
    \E t \in Tabs :
        /\ tabs[t].kind = "admin"
        /\ storeOp.op = "save"
        /\ Len(Stored(storage)) = 2
        /\ Stored(storage)[1].status = "incident"
        /\ Stored(storage)[2].status = "ok"
        /\ tabs[t].draft[1].status = "incident"
        /\ tabs[t].draft[2].status = "incident"


----------------------------------------------------------------------------
(* Claims about the loading flag and the document branch, checked under Spec *)

\* C28: loading is true in every state in which an invocation of
\* handleSendMessage has started and not finished, and false in every state
\* in which none is in progress
C28_LoadingTracksWork == loading <=> SomeInFlight

\* the part of C28 the code keeps whatever the interleaving: with no
\* invocation in progress loading is false
C28_IdleNotLoading == ~SomeInFlight => ~loading

\* the part of C28 the code keeps while invocations do not overlap
C28_LoadingWhenAlone ==
    Cardinality(InFlightCalls) = 1 /\ Len(calls) = 1 => loading

\* an invocation is waiting for its reply while loading is false and the
\* input is enabled, another invocation having finished
C28_WorkWithoutLoading ==
    /\ ~loading
    /\ \E c \in CallIds : calls[c].pc = "await"
    /\ \E c \in CallIds : calls[c].pc = "done"


\* the document branch of invocation c ends in this step
DocCompletes(c) == calls[c].pc = "docwait" /\ calls'[c].pc = "done"

\* the assistant messages of invocation c in a history, in its order
TurnMessages(msgs, c) ==
    SelectSeq(msgs, LAMBDA m : m.role = "assistant" /\ m.call = c)

\* the completion of the document branch of c removed the loading entry of c
\* and nothing else, and appended its document message
DocumentAppended(c) ==
    /\ \E k \in DOMAIN messages :
          /\ messages[k].isLoading /\ messages[k].call = c
          /\ messages' = Append(RemoveAt(messages, k), messages'[Len(messages')])
    /\ LET last == messages'[Len(messages')]
       IN  /\ last.role = "assistant" /\ last.call = c /\ ~last.isLoading
           /\ last.content = DocumentPart(calls[c].http.answer)
    /\ LET turn == TurnMessages(messages', c)
       IN  /\ Len(turn) = 2
           /\ turn[1].content = InitialResponse(calls[c].http.answer)
           /\ turn[2] = messages'[Len(messages')]

\* C30: when the document branch of an invocation completes, the loading
\* entry of the invocation and no other message has been removed, the
\* document message has been appended, the turn is the main answer followed
\* by the document message, and no loading entry remains in the history
C30_DocumentTurn ==
    [][\A c \in CallIds :
          DocCompletes(c) =>
              /\ DocumentAppended(c)
              /\ \A i \in DOMAIN messages' : ~messages'[i].isLoading]_vars

\* the part of C30 the code keeps whatever the interleaving: the invocation
\* removes its own loading entry only and appends its document message
C30_OwnEntryRemoved ==
    [][\A c \in CallIds :
          DocCompletes(c) =>
              /\ DocumentAppended(c)
              /\ \A i \in DOMAIN messages' :
                    messages'[i].isLoading => messages'[i].call # c]_vars

\* the part of C30 the code keeps for an invocation that runs alone
C30_WhenAlone ==
    [][\A c \in CallIds :
          DocCompletes(c) /\ Len(calls) = 1 =>
              /\ DocumentAppended(c)
              /\ messages' = <<messages[1], messages[2], messages'[3]>>
              /\ \A i \in DOMAIN messages' : ~messages'[i].isLoading]_vars

\* an invocation has completed its document branch while the loading entry
\* of another invocation is in the history
C30_OtherEntryRemains ==
    \E c, d \in CallIds :
        /\ c # d
        /\ calls[c].pc = "done" /\ calls[c].outcome = "ok"
        /\ DocumentPart(calls[c].http.answer) # <<>>
        /\ Len(TurnMessages(messages, c)) = 2
        /\ calls[d].pc = "docwait"
        /\ \E i \in DOMAIN messages :
              messages[i].isLoading /\ messages[i].call = d
====
